---- MODULE Spec2Model ----
(***************************************************************************)
(* Model of the data-acquisition core of src/fetch_data.py: the WHO HTTP   *)
(* client with retry/backoff (who_get), the $top/$skip pager (who_paged),  *)
(* time-field detection, the SEX vocabulary lookup, the filtered pull with *)
(* its local fallback, the World Bank fetch (wb_get_indicator), the join   *)
(* performed by main, and main from its first call to the written file.    *)
(*                                                                         *)
(* Each component has its own specification (SpecGet, SpecPaged, ...).     *)
(* The variables of the components a specification does not run stay at    *)
(* their idle values.                                                      *)
(***************************************************************************)
EXTENDS Integers, Sequences, FiniteSets, TLC

VARIABLES
    \* ---- who_get ----
    g_pc,        \* "idle" | "loop" | "returned" | "raised"
    g_retries,   \* the retries parameter
    g_attempt,   \* the loop variable `attempt`
    g_requests,  \* number of requests.get calls made by this call
    g_sleeps,    \* the time.sleep durations so far, in tenths of a second
    g_log,       \* outcome of every attempt so far, in order
    g_last_err,  \* the local last_err
    g_diag,      \* number of times the diagnostic block was printed
    g_result,    \* what the call gave its caller
    \* ---- who_paged ----
    p_pc,        \* "idle" | "call" | "loop" | "returned" | "configerror"
                 \*   | "runaway" | "fetcherror" | "zerodiv"
    p_page_size, \* the page_size parameter
    p_max_rows,  \* the max_rows parameter
    p_out,       \* the local list `out`
    p_skip,      \* the local `skip`
    p_http,      \* HTTP requests issued on behalf of this call
    p_sent,      \* the ($top, $skip) pair of every who_get call made, in order
    p_received,  \* every page received from who_get, in order
    \* ---- detect_time_field ----
    d_pc,        \* "idle" | "call" | "done"
    d_sample,    \* the rows who_single returned
    d_result,    \* the field returned or the error raised
    \* ---- infer_female_value_code ----
    v_pc,        \* "idle" | "call" | "done"
    v_vocab,     \* the rows who_dimension_values("SEX") returned
    v_result,    \* the code returned or the error raised
    \* ---- who_pull_indicator_year ----
    u_pc,        \* "idle" | "detect" | "primary" | "fallback" | "returned"
                 \*   | "raised"
    u_sex,       \* the sex_code parameter (NONE when not given)
    u_time,      \* the local time_field
    u_filters,   \* the $filter of every who_paged call made, in order
    u_primary,   \* the rows the first who_paged call returned
    u_year,      \* the rows the fallback who_paged call returned
    u_df_year,   \* the local df_year after the country-row step (line 150)
    u_df,        \* the local df (the table returned at the end)
    u_err,       \* the error that left the function, if any
    \* ---- the join of main ----
    j_pc,        \* "idle" | "ready" | "done"
    j_pa,        \* pa_f: iso3, insuff_pa_female_pct (after dropna)
    j_sba,       \* sba: iso3, skilled_birth_attendance_pct (after dropna)
    j_gdp,       \* gdp[["iso3", "NY.GDP.PCAP.CD"]]
    j_edu,       \* edu[["iso3", "SE.SEC.ENRR.FE"]]
    j_inner,     \* pa_f.merge(sba, on="iso3", how="inner")
    j_df,        \* the local df after line 231
    \* ---- main ----
    m_pc,        \* "idle" | "infer" | "pa" | "sba" | "gdp" | "edu" | "join"
                 \*   | "done" | "aborted"
    m_female,    \* the local female_code
    m_pa_f,      \* the local pa_f
    m_sba,       \* the local sba after line 219
    m_gdp,       \* gdp[["iso3", "NY.GDP.PCAP.CD"]]
    m_edu,       \* edu[["iso3", "SE.SEC.ENRR.FE"]]
    m_wb_rows,   \* len(rows) at line 178 of every wb_get_indicator call
    m_df,        \* the local df
    m_files,     \* the tables df.to_csv wrote, in order
    m_done,      \* the calls of main that returned, in order
    m_err        \* the exception that left main, if any

getVars   == <<g_pc, g_retries, g_attempt, g_requests, g_sleeps, g_log,
               g_last_err, g_diag, g_result>>
pagedVars == <<p_pc, p_page_size, p_max_rows, p_out, p_skip, p_http, p_sent,
               p_received>>
detectVars == <<d_pc, d_sample, d_result>>
inferVars == <<v_pc, v_vocab, v_result>>
pullVars  == <<u_pc, u_sex, u_time, u_filters, u_primary, u_year, u_df_year,
               u_df, u_err>>
joinVars  == <<j_pc, j_pa, j_sba, j_gdp, j_edu, j_inner, j_df>>
mainVars  == <<m_pc, m_female, m_pa_f, m_sba, m_gdp, m_edu, m_wb_rows, m_df,
               m_files, m_done, m_err>>
vars      == <<getVars, pagedVars, detectVars, inferVars, pullVars, joinVars,
               mainVars>>

\* The variables a component's actions leave alone.
notGet    == <<pagedVars, detectVars, inferVars, pullVars, joinVars, mainVars>>
notPaged  == <<getVars, detectVars, inferVars, pullVars, joinVars, mainVars>>
notDetect == <<getVars, pagedVars, inferVars, pullVars, joinVars, mainVars>>
notInfer  == <<getVars, pagedVars, detectVars, pullVars, joinVars, mainVars>>
notPull   == <<getVars, pagedVars, detectVars, inferVars, joinVars, mainVars>>
notJoin   == <<getVars, pagedVars, detectVars, inferVars, pullVars, mainVars>>
notMain   == <<getVars, pagedVars, detectVars, inferVars, pullVars, joinVars>>

NONE == "None"   \* Python's None

-----------------------------------------------------------------------------
(* Program constants *)

WHO_TOP_LIMIT == 1000

\* retries=3 in who_get's signature
DefaultRetries == 3

\* time.sleep(1.5 * attempt), in tenths of a second
BackoffTenths == 15

YEAR == 2019

-----------------------------------------------------------------------------
(* Bounds of the model *)

\* largest value of the retries parameter that is explored
MaxRetries == 4

\* most records the modelled server puts in one page
MaxPageLen == 2

\* largest value of the max_rows parameter that is explored
MaxRowsBound == 2

\* most rows in the sample answered to detect_time_field
MaxSampleRows == 2

\* most rows in the SEX vocabulary
MaxVocabRows == 2

\* most rows the primary who_paged call of the filtered pull returns
MaxPrimaryRows == 1

\* most rows the year-only (fallback) who_paged call returns
MaxYearRows == 2

\* most rows of each table handed to the join
MaxJoinRows == 2

\* most records a WHO indicator fetch answers to main
MaxWhoRows == 1

\* most entries the World Bank holds for one indicator and year
MaxWbRows == 2

-----------------------------------------------------------------------------
(* who_get: src/fetch_data.py lines 26-48 *)

\* The ways one attempt can end.  "conn": requests.get raised (no response
\* object); "status": raise_for_status raised; "json": r.json() raised
\* ValueError; "ok": r.json() returned the body.
FailKinds == {"conn", "status", "json"}

\* Parsed JSON bodies a successful attempt can yield; the body is opaque to
\* who_get.  "nokey" is an object without a "value" member, "empty" an
\* object whose "value" is [].
BodyKinds == {"rows", "empty", "nokey"}

RetryValues == 0..MaxRetries

GetIdle ==
    /\ g_pc = "idle" /\ g_retries = 0 /\ g_attempt = 0 /\ g_requests = 0
    /\ g_sleeps = <<>> /\ g_log = <<>> /\ g_last_err = NONE /\ g_diag = 0
    /\ g_result = NONE

\* Entry of who_get: last_err = None, the for loop starts at attempt 1.
GetInit ==
    /\ g_pc = "loop"
    /\ g_retries \in RetryValues
    /\ g_attempt = 1
    /\ g_requests = 0
    /\ g_sleeps = <<>>
    /\ g_log = <<>>
    /\ g_last_err = NONE
    /\ g_diag = 0
    /\ g_result = NONE

\* Faulty variant of Backoff: the same pause after every failure.
BackoffFlat(attempt) == BackoffTenths

\* The backoff before the next attempt.
Backoff(attempt) == BackoffTenths * attempt

\* Whether the failed attempt was the last one of the loop.
LastAttempt(attempt, retries) == ~(attempt < retries)

\* `raise last_err`
SurfaceLast(err) == [kind |-> "error", err |-> err]

\* One iteration of the for loop whose request succeeds: return r.json().
GetAttemptOk(body) ==
    /\ g_pc = "loop"
    /\ g_attempt <= g_retries
    /\ g_requests' = g_requests + 1
    /\ g_log' = Append(g_log, "ok")
    /\ g_result' = [kind |-> "value", body |-> [of |-> g_attempt, is |-> body]]
    /\ g_pc' = "returned"
    /\ UNCHANGED <<g_retries, g_attempt, g_sleeps, g_last_err, g_diag>>
    /\ UNCHANGED notGet

\* One iteration of the for loop whose request fails: the except branch.
GetAttemptFail(kind) ==
    /\ g_pc = "loop"
    /\ g_attempt <= g_retries
    /\ g_requests' = g_requests + 1
    /\ g_log' = Append(g_log, kind)
    /\ g_last_err' = [of |-> g_attempt, is |-> kind]
    /\ g_diag' = IF g_attempt = 1 THEN g_diag + 1 ELSE g_diag
    /\ IF LastAttempt(g_attempt, g_retries)
       THEN /\ g_pc' = "raised"
            /\ g_result' = SurfaceLast(g_last_err')
            /\ UNCHANGED <<g_attempt, g_sleeps>>
       ELSE /\ g_sleeps' = Append(g_sleeps, Backoff(g_attempt))
            /\ g_attempt' = g_attempt + 1
            /\ UNCHANGED <<g_pc, g_result>>
    /\ UNCHANGED g_retries
    /\ UNCHANGED notGet

\* range(1, retries + 1) is exhausted without a return or a raise: the
\* function body ends and Python returns None.
GetLoopExit ==
    /\ g_pc = "loop"
    /\ g_attempt > g_retries
    /\ g_pc' = "returned"
    /\ g_result' = [kind |-> "value", body |-> NONE]
    /\ UNCHANGED <<g_retries, g_attempt, g_requests, g_sleeps, g_log,
                   g_last_err, g_diag>>
    /\ UNCHANGED notGet

GetNext ==
    \/ \E b \in BodyKinds : GetAttemptOk(b)
    \/ \E k \in FailKinds : GetAttemptFail(k)
    \/ GetLoopExit

\* The outcomes of a whole who_get call as its callers see them: the kind of
\* outcome and the number of HTTP requests it cost.
WhoGetOutcomes(retries) ==
    {[kind |-> "ok", requests |-> k] : k \in 1..retries}
      \cup (IF retries >= 1
            THEN {[kind |-> "raise", requests |-> retries]}
            ELSE {[kind |-> "none", requests |-> 0]})

-----------------------------------------------------------------------------
(* who_paged: src/fetch_data.py lines 56-88 *)

PageSizes == {0, 1, 2, WHO_TOP_LIMIT - 1, WHO_TOP_LIMIT, WHO_TOP_LIMIT + 1}

PagedIdle ==
    /\ p_pc = "idle" /\ p_page_size = 0 /\ p_max_rows = 0 /\ p_out = <<>>
    /\ p_skip = 0 /\ p_http = 0 /\ p_sent = <<>> /\ p_received = <<>>

PagedInit ==
    /\ p_pc = "call"
    /\ p_page_size \in PageSizes
    /\ p_max_rows \in 0..MaxRowsBound
    /\ p_out = <<>>
    /\ p_skip = 0
    /\ p_http = 0
    /\ p_sent = <<>>
    /\ p_received = <<>>

\* Faulty variant of PageSizeRejected: off by one.
PageSizeRejectedLax(page_size) == page_size > WHO_TOP_LIMIT + 1

\* The page-size guard at the top of who_paged.
PageSizeRejected(page_size) == page_size > WHO_TOP_LIMIT

\* Lines 60-66: the guard, then out = [], skip = 0.
PagedEnter ==
    /\ p_pc = "call"
    /\ p_pc' = IF PageSizeRejected(p_page_size) THEN "configerror" ELSE "loop"
    /\ UNCHANGED <<p_page_size, p_max_rows, p_out, p_skip, p_http, p_sent,
                   p_received>>
    /\ UNCHANGED notPaged

\* The records of the n-th page the server sends: each record is tagged with
\* the request that produced it and its position in the page.
ServerPage(n, len) == [i \in 1..len |-> <<n, i>>]

\* rows = js.get("value", [])
RowsOf(js) == IF js.has_value THEN js.value ELSE <<>>

\* out.extend(rows)
Extend(out, rows) == out \o rows

\* Faulty variant of EndOfData: a page shorter than page_size ends the loop.
EndOfDataShort(rows, page_size) == Len(rows) < page_size

\* `if not rows: break`
EndOfData(rows, page_size) == rows = <<>>

\* `if len(out) > max_rows`
Runaway(out, max_rows) == Len(out) > max_rows

\* One iteration of `while True` in which who_get returns the body js after
\* `cost` HTTP requests.
PagedIteration(js, cost) ==
    /\ p_http' = p_http + cost
    /\ p_sent' = Append(p_sent, [top |-> p_page_size, skip |-> p_skip])
    /\ LET rows == RowsOf(js) IN
       /\ p_received' = Append(p_received, rows)
       /\ IF EndOfData(rows, p_page_size)
          THEN /\ p_pc' = "returned"
               /\ UNCHANGED <<p_out, p_skip>>
          ELSE /\ p_out' = Extend(p_out, rows)
               /\ p_skip' = p_skip + p_page_size
               /\ p_pc' = IF p_page_size * 2 = 0 THEN "zerodiv"
                          ELSE IF Runaway(p_out', p_max_rows) THEN "runaway"
                          ELSE "loop"
    /\ UNCHANGED <<p_page_size, p_max_rows>>
    /\ UNCHANGED notPaged

\* One iteration of `while True` in which who_get raises: the error leaves
\* who_paged.
PagedFetchError ==
    /\ p_pc = "loop"
    /\ \E o \in WhoGetOutcomes(DefaultRetries) :
          /\ o.kind = "raise"
          /\ p_http' = p_http + o.requests
    /\ p_sent' = Append(p_sent, [top |-> p_page_size, skip |-> p_skip])
    /\ p_pc' = "fetcherror"
    /\ UNCHANGED <<p_page_size, p_max_rows, p_out, p_skip, p_received>>
    /\ UNCHANGED notPaged

\* The bodies the server can answer request number n with.
ServerBodies(n) ==
    {[has_value |-> TRUE, value |-> ServerPage(n, len)] : len \in 0..MaxPageLen}
      \cup {[has_value |-> FALSE, value |-> <<>>]}

\* One iteration of `while True` in which who_get returns.
PagedPage ==
    /\ p_pc = "loop"
    /\ \E o \in WhoGetOutcomes(DefaultRetries) :
          /\ o.kind = "ok"
          /\ \E js \in ServerBodies(Len(p_sent) + 1) :
                PagedIteration(js, o.requests)

PagedNext ==
    \/ PagedEnter
    \/ PagedPage
    \/ PagedFetchError

-----------------------------------------------------------------------------
(* Tables.  A raw record is a function from its keys to values; a table is  *)
(* the sequence of records handed to pd.DataFrame.                          *)

NULL == "NaN"   \* what pandas shows for a missing or null cell

\* df.columns of pd.DataFrame(rows): every key of any record.
Columns(rows) == UNION {DOMAIN rows[i] : i \in 1..Len(rows)}

\* df.empty: no rows, or no columns.
DfEmpty(rows) == Len(rows) = 0 \/ Columns(rows) = {}

\* The cell of a row under a column: missing keys read as NaN.
Cell(row, col) == IF col \in DOMAIN row THEN row[col] ELSE NULL

\* The bodies who_get's callers read rows from: js.get("value", []).
FetchErr == [kind |-> "error", err |-> "Fetch"]

-----------------------------------------------------------------------------
(* detect_time_field: src/fetch_data.py lines 109-121 *)

\* Faulty variant of TimePreference: the first two fields swapped.
TimePreferenceSwapped ==
    <<"TimeDimensionBegin", "TimeDimensionValue", "TimeDimensionYear">>

\* The list the for loop walks.
TimePreference ==
    <<"TimeDimensionValue", "TimeDimensionBegin", "TimeDimensionYear">>

\* Keys the modelled sample records may carry.  "TimeDim" is a time-like key
\* the preference list does not name.
SampleKeys == {"TimeDimensionValue", "TimeDimensionBegin", "TimeDimensionYear",
               "TimeDim"}

SampleRows == {[k \in K |-> "v"] : K \in SUBSET SampleKeys}

Samples == UNION {[1..n -> SampleRows] : n \in 0..MaxSampleRows}

\* Lines 111-121, applied to the table built from the sample.
DetectTimeField(sample) ==
    IF DfEmpty(sample)
    THEN [kind |-> "error", err |-> "NoRows"]
    ELSE LET hits == {i \in 1..Len(TimePreference) :
                         TimePreference[i] \in Columns(sample)}
         IN IF hits = {}
            THEN [kind |-> "error", err |-> "SchemaDetection"]
            ELSE [kind |-> "ok",
                  field |-> TimePreference[CHOOSE i \in hits :
                                              \A j \in hits : i <= j]]

DetectIdle == d_pc = "idle" /\ d_sample = <<>> /\ d_result = NONE

DetectInit == d_pc = "call" /\ d_sample = <<>> /\ d_result = NONE

\* who_single answers with the sample and the detection runs on it.
Detect ==
    /\ d_pc = "call"
    /\ \E sample \in Samples :
          /\ d_sample' = sample
          /\ d_result' = DetectTimeField(sample)
    /\ d_pc' = "done"
    /\ UNCHANGED notDetect

\* who_single's who_get raises: the error leaves detect_time_field.
DetectFetchError ==
    /\ d_pc = "call"
    /\ d_result' = FetchErr
    /\ d_pc' = "done"
    /\ UNCHANGED d_sample
    /\ UNCHANGED notDetect

DetectNext ==
    \/ Detect
    \/ DetectFetchError

-----------------------------------------------------------------------------
(* infer_female_value_code: src/fetch_data.py lines 95-106 *)

\* Strings whose characters matter (the titles) are tuples of one-character
\* strings; a null title cell is the tuple NULLTEXT.
NULLTEXT == <<NULL>>

\* The title cell of a row: missing keys read as null.
TextCell(row, col) == IF col \in DOMAIN row THEN row[col] ELSE NULLTEXT

\* str.lower() on one character of the modelled alphabet.
LowerChar(c) ==
    CASE c = "F" -> "f" [] c = "E" -> "e" [] c = "M" -> "m"
      [] c = "A" -> "a" [] c = "L" -> "l" [] c = "B" -> "b"
      [] c = "O" -> "o" [] c = "T" -> "t" [] c = "H" -> "h"
      [] OTHER -> c

\* Faulty variant of Lower: the case is kept.
KeepCase(s) == s

\* str.lower()
Lower(s) == [i \in 1..Len(s) |-> LowerChar(s[i])]

\* `sub in s`
Contains(s, sub) ==
    \E i \in 0..(Len(s) - Len(sub)) : SubSeq(s, i + 1, i + Len(sub)) = sub

\* The literal "female" of line 103.
Needle == <<"f", "e", "m", "a", "l", "e">>

\* Titles the modelled vocabulary may hold.
VocabTitles ==
    { <<"F", "e", "m", "a", "l", "e">>,
      <<"F", "E", "M", "A", "L", "E">>,
      <<"M", "a", "l", "e">>,
      <<"B", "o", "t", "h">>,
      <<"a", "l", "l", " ", "f", "e", "m", "a", "l", "e", "s">>,
      NULLTEXT }

VocabCodes == {"SEX_FMLE", "SEX_MLE", "SEX_BTSX"}

\* Names the API may give the code and the title column, with the lower-case
\* form c.lower() gives each.
CodeColumnNames  == {"Code", "code"}
TitleColumnNames == {"Title", "TITLE"}
LowerName(c) ==
    CASE c \in CodeColumnNames -> "code"
      [] c \in TitleColumnNames -> "title"
      [] OTHER -> c

\* Vocabularies: every row has the same keys; the code or the title column
\* may be missing from the schema.
VocabRows(cc, tc) ==
    {[k \in cc \cup tc \cup {"Dimension"} |->
         IF k \in cc THEN code ELSE IF k \in tc THEN title ELSE "SEX"] :
       code \in VocabCodes, title \in VocabTitles}

Vocabularies ==
    UNION {[1..n -> VocabRows(cc, tc)] :
             n \in 0..MaxVocabRows,
             cc \in {{c} : c \in CodeColumnNames} \cup {{}},
             tc \in {{t} : t \in TitleColumnNames} \cup {{}}}

\* cols.get(name): the column whose lower-cased name is `name`, or None.
ColumnNamed(rows, name) ==
    LET hits == {c \in Columns(rows) : LowerName(c) = name}
    IN IF hits = {} THEN NONE ELSE CHOOSE c \in hits : TRUE

\* .str.lower().str.contains("female", na=False) on one title cell
TitleMatches(title) ==
    IF title = NULLTEXT THEN FALSE ELSE Contains(Lower(title), Needle)

\* Lines 97-106, applied to the SEX vocabulary table.
InferFemaleValueCode(vocab) ==
    LET code_col  == ColumnNamed(vocab, "code")
        title_col == ColumnNamed(vocab, "title")
    IN IF code_col = NONE \/ title_col = NONE
       THEN [kind |-> "error", err |-> "SchemaMismatch"]
       ELSE LET female_row ==
                    SelectSeq(vocab, LAMBDA r : TitleMatches(TextCell(r, title_col)))
            IN IF female_row = <<>>
               THEN [kind |-> "error", err |-> "CategoryNotFound"]
               ELSE [kind |-> "ok", code |-> Cell(female_row[1], code_col)]

InferIdle == v_pc = "idle" /\ v_vocab = <<>> /\ v_result = NONE

InferInit == v_pc = "call" /\ v_vocab = <<>> /\ v_result = NONE

\* who_dimension_values answers with the vocabulary and the lookup runs.
Infer ==
    /\ v_pc = "call"
    /\ \E vocab \in Vocabularies :
          /\ v_vocab' = vocab
          /\ v_result' = InferFemaleValueCode(vocab)
    /\ v_pc' = "done"
    /\ UNCHANGED notInfer

\* who_dimension_values' who_get raises.
InferFetchError ==
    /\ v_pc = "call"
    /\ v_result' = FetchErr
    /\ v_pc' = "done"
    /\ UNCHANGED v_vocab
    /\ UNCHANGED notInfer

InferNext ==
    \/ Infer
    \/ InferFetchError

-----------------------------------------------------------------------------
(* who_pull_indicator_year: src/fetch_data.py lines 124-158 *)

\* The order in which the API lists the modelled keys in every record, which
\* is the order pd.DataFrame gives the columns.
ColumnOrder == <<"SpatialDimType", "Dim1", "Dim2">>

OrderedColumns(rows) == SelectSeq(ColumnOrder, LAMBDA c : c \in Columns(rows))

\* c.startswith("Dim"), on the modelled column names
StartsWithDim(c) == c \in {"Dim1", "Dim2"}

\* Records of an indicator table: the classification may be missing from a
\* record, Dim1 holds a sex code, Dim2 is null or holds a sex code.
PullRows ==
    {[k \in K \cup {"Dim1", "Dim2"} |->
         IF k = "SpatialDimType" THEN t ELSE IF k = "Dim1" THEN a ELSE b] :
       K \in {{}, {"SpatialDimType"}},
       t \in {"COUNTRY", "REGION"},
       a \in {"SEX_FMLE", "SEX_MLE"},
       b \in {NULL, "SEX_FMLE"}}

PullTables(max) == UNION {[1..n -> PullRows] : n \in 0..max}

\* Lines 128-136: the $filter of the primary fetch and of the fallback.
TimeFilter(time_field, year) ==
    [field |-> time_field, quoted |-> (time_field = "TimeDimensionValue"),
     year |-> year, dim1 |-> NONE]
CombinedFilter(time_field, year, sex_code) ==
    [TimeFilter(time_field, year) EXCEPT !.dim1 = sex_code]

\* Lines 142-143 and 149-150: keep the COUNTRY rows when the table has the
\* classification column.
CountryRows(rows) ==
    IF "SpatialDimType" \in Columns(rows)
    THEN SelectSeq(rows, LAMBDA r : Cell(r, "SpatialDimType") = "COUNTRY")
    ELSE rows

\* Faulty variant of NeedsFallback: the fallback also without a category.
NeedsFallbackAnySex(df, sex_code) == DfEmpty(df)

\* Line 146: whether the fallback is taken.
NeedsFallback(df, sex_code) == DfEmpty(df) /\ sex_code # NONE

\* Faulty variant of LocalSexFilter: only Dim1 is looked at.
LocalSexFilterDim1Only(df_year, sex_code, df) ==
    IF \E j \in 1..Len(df_year) : Cell(df_year[j], "Dim1") = sex_code
    THEN SelectSeq(df_year, LAMBDA r : Cell(r, "Dim1") = sex_code)
    ELSE df

\* Lines 152-156: the first Dim* column holding the code somewhere filters
\* the year table; with no such column df stays what it was.
LocalSexFilter(df_year, sex_code, df) ==
    LET dim_cols == SelectSeq(OrderedColumns(df_year), StartsWithDim)
        hits == {i \in 1..Len(dim_cols) :
                    \E j \in 1..Len(df_year) :
                       Cell(df_year[j], dim_cols[i]) = sex_code}
    IN IF hits = {}
       THEN df
       ELSE LET c == dim_cols[CHOOSE i \in hits : \A j \in hits : i <= j]
            IN SelectSeq(df_year, LAMBDA r : Cell(r, c) = sex_code)

\* The ways a who_paged call with page_size = WHO_TOP_LIMIT can raise.
PagedErrors == {"Fetch", "Runaway"}

PullIdle ==
    /\ u_pc = "idle" /\ u_sex = NONE /\ u_time = NONE /\ u_filters = <<>>
    /\ u_primary = <<>> /\ u_year = <<>> /\ u_df_year = <<>> /\ u_df = <<>>
    /\ u_err = NONE

PullInit ==
    /\ u_pc = "detect"
    /\ u_sex \in {NONE, "SEX_FMLE"}
    /\ u_time = NONE
    /\ u_filters = <<>>
    /\ u_primary = <<>>
    /\ u_year = <<>>
    /\ u_df_year = <<>>
    /\ u_df = <<>>
    /\ u_err = NONE

\* Line 125: detect_time_field on the sample the server answers with.
PullDetect ==
    /\ u_pc = "detect"
    /\ \E sample \in Samples :
          LET r == DetectTimeField(sample) IN
          IF r.kind = "ok"
          THEN u_pc' = "primary" /\ u_time' = r.field /\ UNCHANGED u_err
          ELSE u_pc' = "raised" /\ u_err' = r.err /\ UNCHANGED u_time
    /\ UNCHANGED <<u_sex, u_filters, u_primary, u_year, u_df_year, u_df>>
    /\ UNCHANGED notPull

\* Line 125, who_single raising.
PullDetectFetchError ==
    /\ u_pc = "detect"
    /\ u_pc' = "raised"
    /\ u_err' = "Fetch"
    /\ UNCHANGED <<u_sex, u_time, u_filters, u_primary, u_year, u_df_year,
                   u_df>>
    /\ UNCHANGED notPull

\* Lines 133-146 (and 158 when no fallback is due): the primary fetch
\* answered with `rows`.
PullPrimary ==
    /\ u_pc = "primary"
    /\ u_filters' = Append(u_filters,
                           IF u_sex # NONE
                           THEN CombinedFilter(u_time, YEAR, u_sex)
                           ELSE TimeFilter(u_time, YEAR))
    /\ \E rows \in PullTables(MaxPrimaryRows) :
          /\ u_primary' = rows
          /\ u_df' = CountryRows(rows)
    /\ u_pc' = IF NeedsFallback(u_df', u_sex) THEN "fallback" ELSE "returned"
    /\ UNCHANGED <<u_sex, u_time, u_year, u_df_year, u_err>>
    /\ UNCHANGED notPull

\* Line 140, who_paged raising.
PullPrimaryError ==
    /\ u_pc = "primary"
    /\ u_filters' = Append(u_filters,
                           IF u_sex # NONE
                           THEN CombinedFilter(u_time, YEAR, u_sex)
                           ELSE TimeFilter(u_time, YEAR))
    /\ u_pc' = "raised"
    /\ u_err' \in PagedErrors
    /\ UNCHANGED <<u_sex, u_time, u_primary, u_year, u_df_year, u_df>>
    /\ UNCHANGED notPull

\* Lines 148-158: the year-only fetch answered with `rows`.
PullFallback ==
    /\ u_pc = "fallback"
    /\ u_filters' = Append(u_filters, TimeFilter(u_time, YEAR))
    /\ \E rows \in PullTables(MaxYearRows) :
          /\ u_year' = rows
          /\ u_df_year' = CountryRows(rows)
          /\ u_df' = LocalSexFilter(CountryRows(rows), u_sex, u_df)
    /\ u_pc' = "returned"
    /\ UNCHANGED <<u_sex, u_time, u_primary, u_err>>
    /\ UNCHANGED notPull

\* Line 148, who_paged raising.
PullFallbackError ==
    /\ u_pc = "fallback"
    /\ u_filters' = Append(u_filters, TimeFilter(u_time, YEAR))
    /\ u_pc' = "raised"
    /\ u_err' \in PagedErrors
    /\ UNCHANGED <<u_sex, u_time, u_primary, u_year, u_df_year, u_df>>
    /\ UNCHANGED notPull

PullNext ==
    \/ PullDetect
    \/ PullDetectFetchError
    \/ PullPrimary
    \/ PullPrimaryError
    \/ PullFallback
    \/ PullFallbackError

-----------------------------------------------------------------------------
(* The join of main: src/fetch_data.py lines 225-231 *)

\* A numeric cell is <<v>>, or NAN when pandas holds NaN there.
NAN == <<>>

\* The value columns of the four tables.
PA_COL  == "insuff_pa_female_pct"
SBA_COL == "skilled_birth_attendance_pct"
GDP_COL == "NY.GDP.PCAP.CD"
EDU_COL == "SE.SEC.ENRR.FE"

\* The table whose i-th row has country code codes[i] and, under `col`, a
\* value telling the rows of the table apart.
TableOf(codes, col) ==
    [i \in 1..Len(codes) |->
        [k \in {"iso3", col} |-> IF k = "iso3" THEN codes[i] ELSE <<10 * i>>]]

JoinCodes == {"AAA", "BBB"}

CodeLists == UNION {[1..n -> JoinCodes] : n \in 0..MaxJoinRows}

\* The round trip of the specification: a primary table of ten codes, all of
\* them in the required table, and a control table holding seven of them and
\* three other codes.
TenCodes   == <<"C01", "C02", "C03", "C04", "C05", "C06", "C07", "C08", "C09",
                "C10">>
SevenShared == <<"C02", "X01", "C03", "C05", "X02", "C06", "C08", "C09", "X03",
                 "C10">>

\* One row of left joined with one matching row of right.
JoinRow(l, r) ==
    [k \in DOMAIN l \cup DOMAIN r |-> IF k \in DOMAIN l THEN l[k] ELSE r[k]]

\* A row of left without a match, in a left join: NaN under right's column.
UnmatchedRow(l, col) ==
    [k \in DOMAIN l \cup {col} |-> IF k \in DOMAIN l THEN l[k] ELSE NAN]

\* Faulty variant of MergeRows: every merge behaves as an inner join.
MergeRowsInnerOnly(l, right, col, how) ==
    LET matches == SelectSeq(right, LAMBDA r : r["iso3"] = l["iso3"])
    IN [i \in 1..Len(matches) |-> JoinRow(l, matches[i])]

\* The rows one row of left contributes to left.merge(right, how=how): one
\* per right row of its code, in right's order; without a match, the row with
\* NaN under right's column in a left join and nothing in an inner join.
MergeRows(l, right, col, how) ==
    LET matches == SelectSeq(right, LAMBDA r : r["iso3"] = l["iso3"])
    IN IF matches = <<>>
       THEN (IF how = "left" THEN <<UnmatchedRow(l, col)>> ELSE <<>>)
       ELSE [i \in 1..Len(matches) |-> JoinRow(l, matches[i])]

\* left.merge(right, on="iso3", how=how), where `col` is the value column
\* of right: the rows follow the order of left.
Merge(left, right, col, how) ==
    LET upto[n \in 0..Len(left)] ==
            IF n = 0 THEN <<>>
            ELSE upto[n - 1] \o MergeRows(left[n], right, col, how)
    IN upto[Len(left)]

\* Lines 225-229: the chain of merges.
MergeAll(pa_f, sba, gdp, edu) ==
    Merge(Merge(Merge(pa_f, sba, SBA_COL, "inner"), gdp, GDP_COL, "left"),
          edu, EDU_COL, "left")

\* Line 231: df["female_activity_rate_pct"] = 100 - df["insuff_pa_female_pct"]
WithActivityRate(df) ==
    [i \in 1..Len(df) |->
        [k \in DOMAIN df[i] \cup {"female_activity_rate_pct"} |->
            IF k = "female_activity_rate_pct"
            THEN (IF df[i][PA_COL] = NAN THEN NAN ELSE <<100 - df[i][PA_COL][1]>>)
            ELSE df[i][k]]]

JoinIdle ==
    /\ j_pc = "idle" /\ j_pa = <<>> /\ j_sba = <<>> /\ j_gdp = <<>>
    /\ j_edu = <<>> /\ j_inner = <<>> /\ j_df = <<>>

\* The four tables as they reach line 225.
JoinInit ==
    /\ j_pc = "ready"
    /\ \/ /\ j_pa  \in {TableOf(c, PA_COL)  : c \in CodeLists}
          /\ j_sba \in {TableOf(c, SBA_COL) : c \in CodeLists}
          /\ j_gdp \in {TableOf(c, GDP_COL) : c \in CodeLists}
          /\ j_edu \in {TableOf(c, EDU_COL) : c \in CodeLists}
       \/ /\ j_pa  = TableOf(TenCodes, PA_COL)
          /\ j_sba = TableOf(TenCodes, SBA_COL)
          /\ j_gdp = TableOf(SevenShared, GDP_COL)
          /\ j_edu = TableOf(<<>>, EDU_COL)
    /\ j_inner = <<>>
    /\ j_df = <<>>

\* Lines 225-231.
Join ==
    /\ j_pc = "ready"
    /\ j_inner' = Merge(j_pa, j_sba, SBA_COL, "inner")
    /\ j_df' = WithActivityRate(MergeAll(j_pa, j_sba, j_gdp, j_edu))
    /\ j_pc' = "done"
    /\ UNCHANGED <<j_pa, j_sba, j_gdp, j_edu>>
    /\ UNCHANGED notJoin

JoinNext == Join

-----------------------------------------------------------------------------
(* wb_get_indicator: src/fetch_data.py lines 164-187 *)

\* Country codes of the modelled records.
MainCodes == {"USA", "CAN"}

\* An entry of the data list that is null (line 174 skips it).
NoneEntry == [none |-> TRUE]

\* A record of the World Bank: its country code and its value, which may be
\* null (modelled for one of the countries).  Every record also carries
\* country.value and date, which main does not read.
WbRecords ==
    {[countryiso3code |-> c, value |-> <<7>>] : c \in MainCodes}
       \cup {[countryiso3code |-> "USA", value |-> NAN]}

\* What the World Bank holds for one indicator and year, in the order it
\* serves it.
WbDatasets == UNION {[1..n -> WbRecords \cup {NoneEntry}] : n \in 0..MaxWbRows}

\* Entries per page the server sends (per_page, scaled to the model).
WbPageSizes == {1, 2}

\* A server: what it holds, its page size, and whether it sends null or an
\* empty list as the data of an empty result.
WbServers ==
    [entries : WbDatasets, per_page : WbPageSizes, null_data : BOOLEAN]

\* meta, data = r.json() for the request of page `page`.
WbResponse(srv, page) ==
    LET total == Len(srv.entries)
        from  == (page - 1) * srv.per_page + 1
        to    == IF page * srv.per_page < total THEN page * srv.per_page
                 ELSE total
    IN [pages   |-> (total + srv.per_page - 1) \div srv.per_page,
        is_null |-> (total = 0 /\ srv.null_data),
        data    |-> SubSeq(srv.entries, from, to)]

\* Lines 169-176: the page loop, from request `page` on with `rows` so far.
RECURSIVE WbRowsFrom(_, _, _)
WbRowsFrom(srv, page, rows) ==
    LET r == WbResponse(srv, page) IN
    IF r.is_null
    THEN [kind |-> "error", err |-> "TypeError"]
    ELSE LET more == rows \o SelectSeq(r.data, LAMBDA d : d # NoneEntry)
         IN IF page >= r.pages
            THEN [kind |-> "ok", rows |-> more]
            ELSE WbRowsFrom(srv, page + 1, more)

\* Lines 178-179: pd.json_normalize(rows) has the columns of `keep` when
\* some record gives them; df[keep] raises KeyError otherwise.
WbHasColumns(rows) == rows # <<>>

\* Lines 178-186 and the selection of lines 227-228: iso3 and the indicator.
WbTable(rows, indicator) ==
    [i \in 1..Len(rows) |->
        [k \in {"iso3", indicator} |->
            IF k = "iso3" THEN rows[i].countryiso3code ELSE rows[i].value]]

\* Lines 164-187 against the server `srv`.
WbGetIndicator(srv, indicator) ==
    LET got == WbRowsFrom(srv, 1, <<>>) IN
    IF got.kind = "error" THEN [kind |-> "error", err |-> got.err, n |-> 0]
    ELSE IF ~WbHasColumns(got.rows)
    THEN [kind |-> "error", err |-> "KeyError", n |-> Len(got.rows)]
    ELSE [kind |-> "ok", table |-> WbTable(got.rows, indicator),
          n |-> Len(got.rows)]

-----------------------------------------------------------------------------
(* main: src/fetch_data.py lines 193-241 *)

\* A numeric cell of a row: missing keys and nulls read as NaN.
NumCell(row, col) == IF col \in DOMAIN row THEN row[col] ELSE NAN

\* Records of a WHO indicator as main reads them: the country code, the
\* classification (may be missing), the value (missing, null or `v`) and the
\* sex code in Dim1.
IndicatorRows(v) ==
    {[k \in K \cup {"SpatialDim", "Dim1"} |->
         CASE k = "SpatialDimType" -> t
           [] k = "SpatialDim" -> c
           [] k = "NumericValue" -> n
           [] OTHER -> a] :
       K \in SUBSET {"SpatialDimType", "NumericValue"},
       t \in {"COUNTRY", "REGION"},
       c \in MainCodes,
       n \in {<<v>>, NAN},
       a \in {"SEX_FMLE", "SEX_MLE"}}

IndicatorTables(v) == UNION {[1..n -> IndicatorRows(v)] : n \in 0..MaxWhoRows}

\* Lines 140-158: what who_pull_indicator_year returns when the primary
\* fetch answers `primary` and the year-only fetch, if made, `year_rows`.
WhoPullIndicatorYear(primary, year_rows, sex_code) ==
    LET df == CountryRows(primary)
    IN IF NeedsFallback(df, sex_code)
       THEN LocalSexFilter(CountryRows(year_rows), sex_code, df)
       ELSE df

\* The answers of the two fetches.  The year-only answer is read only when
\* the primary one leaves no row, so one of the two is taken empty: every
\* table the pull can return is returned for one of these pairs.
PullAnswers(v) ==
    {<<t, <<>>>> : t \in IndicatorTables(v)}
       \cup {<<<<>>, t>> : t \in IndicatorTables(v)}

\* The errors that leave who_pull_indicator_year.
PullErrors == PagedErrors \cup {"NoRows", "SchemaDetection"}

\* Lines 205-207 and 217-219: rename, select, dropna.
RenameSelectDropna(df, col) ==
    LET renamed == [i \in 1..Len(df) |->
                       [k \in {"iso3", col} |->
                           IF k = "iso3" THEN df[i]["SpatialDim"]
                           ELSE NumCell(df[i], "NumericValue")]]
    IN SelectSeq(renamed, LAMBDA r : r[col] # NAN)

\* Lines 199-207 and 211-219: the checks on a pulled table, then its
\* normal form.
RequiredTable(df, col) ==
    IF DfEmpty(df)
    THEN [kind |-> "error", err |-> "ZeroRows"]
    ELSE IF ~({"SpatialDim", "NumericValue"} \subseteq Columns(df))
    THEN [kind |-> "error", err |-> "WhoSchema"]
    ELSE [kind |-> "ok", table |-> RenameSelectDropna(df, col)]

\* What infer_female_value_code gives main: the code, or the error raised.
InferOutcomes ==
    {InferFemaleValueCode(vocab) : vocab \in Vocabularies} \cup {FetchErr}

\* What lines 198-207 make of the pull of NCD_PAA, for each sex code.
PaOutcomes ==
    [sex \in VocabCodes |->
        {RequiredTable(WhoPullIndicatorYear(a[1], a[2], sex), PA_COL) :
            a \in PullAnswers(25)}]

\* What lines 210-219 make of the pull of MDG_0000000025.
SbaOutcomes ==
    {RequiredTable(WhoPullIndicatorYear(a[1], a[2], NONE), SBA_COL) :
        a \in PullAnswers(99)}

\* What wb_get_indicator gives main for each indicator.
WbOutcomes ==
    [indicator \in {GDP_COL, EDU_COL} |->
        {WbGetIndicator(srv, indicator) : srv \in WbServers}]

\* Faulty variant of AfterRaise: the exception is swallowed and main goes on.
AfterRaiseContinue(next) == next

\* main has no handler: an exception raised by a call ends the run, whatever
\* the statement that would have come next.
AfterRaise(next) == "aborted"

MainIdle ==
    /\ m_pc = "idle" /\ m_female = NONE /\ m_pa_f = <<>> /\ m_sba = <<>>
    /\ m_gdp = <<>> /\ m_edu = <<>> /\ m_wb_rows = <<>> /\ m_df = <<>>
    /\ m_files = <<>> /\ m_done = <<>> /\ m_err = NONE

MainInit ==
    /\ m_pc = "infer"
    /\ m_female = NONE
    /\ m_pa_f = <<>>
    /\ m_sba = <<>>
    /\ m_gdp = <<>>
    /\ m_edu = <<>>
    /\ m_wb_rows = <<>>
    /\ m_df = <<>>
    /\ m_files = <<>>
    /\ m_done = <<>>
    /\ m_err = NONE

\* Line 194: infer_female_value_code on the vocabulary the server answers.
MainInfer ==
    /\ m_pc = "infer"
    /\ \E r \in InferOutcomes :
          IF r.kind = "ok"
          THEN /\ m_female' = r.code
               /\ m_pc' = "pa"
               /\ m_done' = Append(m_done, "infer")
               /\ UNCHANGED m_err
          ELSE /\ m_pc' = AfterRaise("pa")
               /\ m_err' = r.err
               /\ UNCHANGED <<m_female, m_done>>
    /\ UNCHANGED <<m_pa_f, m_sba, m_gdp, m_edu, m_wb_rows, m_df, m_files>>
    /\ UNCHANGED notMain

\* Lines 198-207: the pull of NCD_PAA with the female code returns.
MainPullPa ==
    /\ m_pc = "pa"
    /\ \E r \in PaOutcomes[m_female] :
          IF r.kind = "ok"
          THEN /\ m_pa_f' = r.table
               /\ m_pc' = "sba"
               /\ m_done' = Append(m_done, "pa")
               /\ UNCHANGED m_err
          ELSE /\ m_pc' = AfterRaise("sba")
               /\ m_err' = r.err
               /\ UNCHANGED <<m_pa_f, m_done>>
    /\ UNCHANGED <<m_female, m_sba, m_gdp, m_edu, m_wb_rows, m_df, m_files>>
    /\ UNCHANGED notMain

\* Line 198: who_pull_indicator_year raises.
MainPullPaError ==
    /\ m_pc = "pa"
    /\ m_pc' = AfterRaise("sba")
    /\ m_err' \in PullErrors
    /\ UNCHANGED <<m_female, m_pa_f, m_sba, m_gdp, m_edu, m_wb_rows, m_df,
                   m_files, m_done>>
    /\ UNCHANGED notMain

\* Lines 210-219: the pull of MDG_0000000025, without a sex code, returns.
MainPullSba ==
    /\ m_pc = "sba"
    /\ \E r \in SbaOutcomes :
          IF r.kind = "ok"
          THEN /\ m_sba' = r.table
               /\ m_pc' = "gdp"
               /\ m_done' = Append(m_done, "sba")
               /\ UNCHANGED m_err
          ELSE /\ m_pc' = AfterRaise("gdp")
               /\ m_err' = r.err
               /\ UNCHANGED <<m_sba, m_done>>
    /\ UNCHANGED <<m_female, m_pa_f, m_gdp, m_edu, m_wb_rows, m_df, m_files>>
    /\ UNCHANGED notMain

\* Line 210: who_pull_indicator_year raises.
MainPullSbaError ==
    /\ m_pc = "sba"
    /\ m_pc' = AfterRaise("gdp")
    /\ m_err' \in PullErrors
    /\ UNCHANGED <<m_female, m_pa_f, m_sba, m_gdp, m_edu, m_wb_rows, m_df,
                   m_files, m_done>>
    /\ UNCHANGED notMain

\* Line 222: wb_get_indicator("NY.GDP.PCAP.CD", YEAR) against a server.
MainWbGdp ==
    /\ m_pc = "gdp"
    /\ \E r \in WbOutcomes[GDP_COL] :
          /\ m_wb_rows' = Append(m_wb_rows, r.n)
          /\ IF r.kind = "ok"
             THEN /\ m_gdp' = r.table
                  /\ m_pc' = "edu"
                  /\ m_done' = Append(m_done, "gdp")
                  /\ UNCHANGED m_err
             ELSE /\ m_pc' = AfterRaise("edu")
                  /\ m_err' = r.err
                  /\ UNCHANGED <<m_gdp, m_done>>
    /\ UNCHANGED <<m_female, m_pa_f, m_sba, m_edu, m_df, m_files>>
    /\ UNCHANGED notMain

\* Line 222: requests.get or raise_for_status raises in wb_get_indicator.
MainWbGdpHttpError ==
    /\ m_pc = "gdp"
    /\ m_pc' = AfterRaise("edu")
    /\ m_err' = "HTTPError"
    /\ UNCHANGED <<m_female, m_pa_f, m_sba, m_gdp, m_edu, m_wb_rows, m_df,
                   m_files, m_done>>
    /\ UNCHANGED notMain

\* Line 223: wb_get_indicator("SE.SEC.ENRR.FE", YEAR) against a server.
MainWbEdu ==
    /\ m_pc = "edu"
    /\ \E r \in WbOutcomes[EDU_COL] :
          /\ m_wb_rows' = Append(m_wb_rows, r.n)
          /\ IF r.kind = "ok"
             THEN /\ m_edu' = r.table
                  /\ m_pc' = "join"
                  /\ m_done' = Append(m_done, "edu")
                  /\ UNCHANGED m_err
             ELSE /\ m_pc' = AfterRaise("join")
                  /\ m_err' = r.err
                  /\ UNCHANGED <<m_edu, m_done>>
    /\ UNCHANGED <<m_female, m_pa_f, m_sba, m_gdp, m_df, m_files>>
    /\ UNCHANGED notMain

\* Line 223: requests.get or raise_for_status raises in wb_get_indicator.
MainWbEduHttpError ==
    /\ m_pc = "edu"
    /\ m_pc' = AfterRaise("join")
    /\ m_err' = "HTTPError"
    /\ UNCHANGED <<m_female, m_pa_f, m_sba, m_gdp, m_edu, m_wb_rows, m_df,
                   m_files, m_done>>
    /\ UNCHANGED notMain

\* Lines 225-241: the merges, the derived column and df.to_csv.
MainJoinWrite ==
    /\ m_pc = "join"
    /\ m_df' = WithActivityRate(MergeAll(m_pa_f, m_sba, m_gdp, m_edu))
    /\ m_files' = Append(m_files, m_df')
    /\ m_pc' = "done"
    /\ UNCHANGED <<m_female, m_pa_f, m_sba, m_gdp, m_edu, m_wb_rows, m_done,
                   m_err>>
    /\ UNCHANGED notMain

MainNext ==
    \/ MainInfer
    \/ MainPullPa
    \/ MainPullPaError
    \/ MainPullSba
    \/ MainPullSbaError
    \/ MainWbGdp
    \/ MainWbGdpHttpError
    \/ MainWbEdu
    \/ MainWbEduHttpError
    \/ MainJoinWrite

-----------------------------------------------------------------------------
(* Specifications *)

InitGet ==
    /\ GetInit /\ PagedIdle /\ DetectIdle /\ InferIdle /\ PullIdle /\ JoinIdle
    /\ MainIdle
SpecGet == InitGet /\ [][GetNext]_vars

InitPaged ==
    /\ PagedInit /\ GetIdle /\ DetectIdle /\ InferIdle /\ PullIdle /\ JoinIdle
    /\ MainIdle
SpecPaged == InitPaged /\ [][PagedNext]_vars

InitDetect ==
    /\ DetectInit /\ GetIdle /\ PagedIdle /\ InferIdle /\ PullIdle /\ JoinIdle
    /\ MainIdle
SpecDetect == InitDetect /\ [][DetectNext]_vars

InitInfer ==
    /\ InferInit /\ GetIdle /\ PagedIdle /\ DetectIdle /\ PullIdle /\ JoinIdle
    /\ MainIdle
SpecInfer == InitInfer /\ [][InferNext]_vars

InitPull ==
    /\ PullInit /\ GetIdle /\ PagedIdle /\ DetectIdle /\ InferIdle /\ JoinIdle
    /\ MainIdle
SpecPull == InitPull /\ [][PullNext]_vars

InitJoin ==
    /\ JoinInit /\ GetIdle /\ PagedIdle /\ DetectIdle /\ InferIdle /\ PullIdle
    /\ MainIdle
SpecJoin == InitJoin /\ [][JoinNext]_vars

InitMain ==
    /\ MainInit /\ GetIdle /\ PagedIdle /\ DetectIdle /\ InferIdle /\ PullIdle
    /\ JoinIdle
SpecMain == InitMain /\ [][MainNext]_vars

-----------------------------------------------------------------------------
(* Helpers of the properties *)

RECURSIVE Flatten(_)
Flatten(pages) ==
    IF pages = <<>> THEN <<>> ELSE Head(pages) \o Flatten(Tail(pages))

Last(seq) == seq[Len(seq)]

GetDone == g_pc \in {"returned", "raised"}

-----------------------------------------------------------------------------
(* who_get *)

\* C4: who_get has no silent empty-result outcome: a finished call either
\* returned the parsed body of a successful attempt (its last one) or raised
\* the error of its last failed attempt; it never hands back a missing result.
C4_NoSilentEmptyResult ==
    GetDone =>
        \/ /\ g_pc = "returned"
           /\ g_result.kind = "value"
           /\ g_result.body # NONE
           /\ g_log # <<>>
           /\ Last(g_log) = "ok"
           /\ g_result.body.of = Len(g_log)
        \/ /\ g_pc = "raised"
           /\ g_result.kind = "error"
           /\ g_log # <<>>
           /\ Last(g_log) \in FailKinds
           /\ g_result.err = [of |-> Len(g_log), is |-> Last(g_log)]

\* C5: who_get makes at most `retries` attempts, sleeps 1.5 s * k after
\* failed attempt k when another attempt follows, returns at once on the
\* first successful attempt, and raises only when all `retries` attempts
\* have failed.
C5_LinearBackoff ==
    /\ g_requests = Len(g_log)
    /\ g_requests <= (IF g_retries > 0 THEN g_retries ELSE 0)
    /\ \A k \in 1..Len(g_sleeps) : g_sleeps[k] = 15 * k /\ g_log[k] \in FailKinds
    /\ \A k \in 1..Len(g_log) :
          IF g_log[k] = "ok"
          THEN k = Len(g_log) /\ g_pc = "returned" /\ Len(g_sleeps) = k - 1
          ELSE k < Len(g_log) \/ g_pc = "raised" \/ Len(g_sleeps) = k
    /\ g_pc = "raised" <=>
          /\ g_retries >= 1
          /\ Len(g_log) = g_retries
          /\ \A k \in 1..Len(g_log) : g_log[k] \in FailKinds
    /\ g_pc = "raised" => Len(g_sleeps) = g_retries - 1

\* A call that failed twice, slept twice and then succeeded.
C5_Witness ==
    /\ g_pc = "returned"
    /\ Len(g_log) = 3
    /\ g_sleeps = <<15, 30>>

-----------------------------------------------------------------------------
(* who_paged *)

\* C1: who_paged accumulates exactly the concatenation of the pages it
\* received, in request order; it returns exactly when a page with zero
\* records arrives, makes no request after that page, and a non-empty page
\* shorter than page_size does not end the loop.  Request i carries
\* $top = page_size and $skip = (i - 1) * page_size.
C1_ConcatenationOfPages ==
    /\ p_out = Flatten(p_received)
    /\ \A i \in 1..Len(p_received) :
          p_received[i] = <<>> => i = Len(p_received) /\ p_pc = "returned"
    /\ p_pc = "returned" => p_received # <<>> /\ Last(p_received) = <<>>
    /\ Len(p_sent) = Len(p_received) + (IF p_pc = "fetcherror" THEN 1 ELSE 0)
    /\ \A i \in 1..Len(p_sent) :
          p_sent[i] = [top |-> p_page_size, skip |-> (i - 1) * p_page_size]
    /\ ( /\ p_received # <<>>
         /\ Last(p_received) # <<>>
         /\ Len(Last(p_received)) < p_page_size
         /\ Len(p_out) <= p_max_rows
         /\ p_pc # "fetcherror" )
       => p_pc = "loop"

\* A call that returned after two non-empty pages, the first of them shorter
\* than page_size.
C1_Witness ==
    /\ p_pc = "returned"
    /\ Len(p_received) = 3
    /\ p_received[1] # <<>>
    /\ Len(p_received[1]) < p_page_size
    /\ Len(p_out) = 2

\* C2: with page_size above WHO_TOP_LIMIT the call fails with the
\* configuration error before any request: no who_get call and no HTTP
\* request is ever made by it.
C2_OversizeFailsBeforeNetwork ==
    /\ p_page_size > WHO_TOP_LIMIT =>
          /\ p_pc \in {"call", "configerror"}
          /\ p_http = 0
          /\ p_sent = <<>>
    /\ p_pc = "configerror" => p_page_size > WHO_TOP_LIMIT

\* The oversize call has been rejected.
C2_Witness == p_pc = "configerror" /\ p_page_size = WHO_TOP_LIMIT + 1

\* C3: as soon as the accumulated record count exceeds max_rows the call
\* aborts with the runaway-pagination error: it never returns more than
\* max_rows records and is never in any state but "runaway" with more than
\* max_rows records accumulated.
C3_RunawayAbort ==
    /\ p_pc = "returned" => Len(p_out) <= p_max_rows
    /\ Len(p_out) > p_max_rows => p_pc = "runaway"

-----------------------------------------------------------------------------
(* detect_time_field *)

\* Some record of the sample carries the key.
InSample(f) == \E i \in 1..Len(d_sample) : f \in DOMAIN d_sample[i]

\* C8: detect_time_field returns the first of TimeDimensionValue,
\* TimeDimensionBegin, TimeDimensionYear (in that order) that the sample
\* carries; when the sample carries none of them it raises (the schema
\* detection error when the sample has cells at all) and returns no field;
\* the field returned is always one the sample carries.
C8_FirstPresentTimeField ==
    (d_pc = "done" /\ d_result # FetchErr) =>
        /\ InSample("TimeDimensionValue") =>
              d_result = [kind |-> "ok", field |-> "TimeDimensionValue"]
        /\ (~InSample("TimeDimensionValue") /\ InSample("TimeDimensionBegin")) =>
              d_result = [kind |-> "ok", field |-> "TimeDimensionBegin"]
        /\ ( /\ ~InSample("TimeDimensionValue")
             /\ ~InSample("TimeDimensionBegin")
             /\ InSample("TimeDimensionYear") ) =>
              d_result = [kind |-> "ok", field |-> "TimeDimensionYear"]
        /\ ( /\ ~InSample("TimeDimensionValue")
             /\ ~InSample("TimeDimensionBegin")
             /\ ~InSample("TimeDimensionYear") ) =>
              /\ d_result.kind = "error"
              /\ InSample("TimeDim") => d_result.err = "SchemaDetection"
        /\ d_result.kind = "ok" => InSample(d_result.field)

\* A sample that carries the second field only (next to the unlisted
\* TimeDim) and for which the second field was returned.
C8_Witness ==
    /\ d_pc = "done"
    /\ Len(d_sample) = 2
    /\ ~InSample("TimeDimensionValue")
    /\ InSample("TimeDimensionBegin")
    /\ ~InSample("TimeDimensionYear")
    /\ InSample("TimeDim")
    /\ d_result = [kind |-> "ok", field |-> "TimeDimensionBegin"]

-----------------------------------------------------------------------------
(* infer_female_value_code *)

\* The titles of VocabTitles that contain "female" when case is ignored.
FemaleTitles ==
    { <<"F", "e", "m", "a", "l", "e">>,
      <<"F", "E", "M", "A", "L", "E">>,
      <<"a", "l", "l", " ", "f", "e", "m", "a", "l", "e", "s">> }

\* The title (code) of vocabulary row i, whatever the case of the column name.
TitleOf(i) ==
    LET t == CHOOSE t \in TitleColumnNames : t \in DOMAIN v_vocab[i]
    IN v_vocab[i][t]
CodeOf(i) ==
    LET c == CHOOSE c \in CodeColumnNames : c \in DOMAIN v_vocab[i]
    IN v_vocab[i][c]

VocabHasSchema ==
    /\ v_vocab # <<>>
    /\ \E t \in TitleColumnNames : t \in DOMAIN v_vocab[1]
    /\ \E c \in CodeColumnNames : c \in DOMAIN v_vocab[1]

\* C9: when the vocabulary has a code and a title column (in any case of
\* the name), the lookup returns the code of the first row, in vocabulary
\* order, whose title contains "female" ignoring case, and raises the
\* category-not-found error when no row does; without the columns it raises
\* the schema error.  It never returns a code no matching row carries.
C9_FirstCaseInsensitiveMatch ==
    (v_pc = "done" /\ v_result # FetchErr) =>
        IF VocabHasSchema
        THEN LET hits == {i \in 1..Len(v_vocab) : TitleOf(i) \in FemaleTitles}
             IN IF hits = {}
                THEN v_result = [kind |-> "error", err |-> "CategoryNotFound"]
                ELSE \E i \in hits :
                        /\ \A j \in hits : i <= j
                        /\ v_result = [kind |-> "ok", code |-> CodeOf(i)]
        ELSE v_result = [kind |-> "error", err |-> "SchemaMismatch"]

\* A vocabulary (Male, FEMALE) for which the code of the second row was
\* returned.
C9_Witness ==
    /\ v_pc = "done"
    /\ Len(v_vocab) = 2
    /\ VocabHasSchema
    /\ TitleOf(1) = <<"M", "a", "l", "e">>
    /\ TitleOf(2) = <<"F", "E", "M", "A", "L", "E">>
    /\ CodeOf(1) = "SEX_MLE"
    /\ v_result = [kind |-> "ok", code |-> "SEX_FMLE"]

-----------------------------------------------------------------------------
(* who_pull_indicator_year *)

\* The row holds the requested code in some Dim* column.
HasCode(r) == r["Dim1"] = u_sex \/ r["Dim2"] = u_sex

\* The rows of a fetched table that the country-row step leaves: all of
\* them when no record carries SpatialDimType, else the records that carry
\* it with the value COUNTRY.
Kept(rows) ==
    IF \E i \in 1..Len(rows) : "SpatialDimType" \in DOMAIN rows[i]
    THEN SelectSeq(rows, LAMBDA r : /\ "SpatialDimType" \in DOMAIN r
                                   /\ r["SpatialDimType"] = "COUNTRY")
    ELSE rows

FallbackReturned == u_pc = "returned" /\ u_sex # NONE /\ Len(u_filters) = 2

\* C6 (as claimed): when the combined filter returned zero rows the pull
\* returns exactly the rows of the year-only answer that hold the requested
\* code in some Dim* column.
C6_FallbackReturnsAllCodeRows ==
    (u_pc = "returned" /\ u_sex # NONE /\ u_primary = <<>>) =>
        u_df = SelectSeq(u_year, HasCode)

\* C6 (amended): the fallback runs exactly when the combined filter left no
\* country row; the pull then returns, of the rows of the year-only answer
\* that the country-row step leaves, those holding the requested code in the
\* first Dim* column (in column order) in which any of them holds it, and
\* no row when none does.  That is every row holding the code in some Dim*
\* column whenever the country-row step drops none of these rows and they
\* hold the code in one Dim* column only, whichever column that is.
C6_FallbackFirstDimColumn ==
    /\ (u_sex # NONE /\ Len(u_filters) = 2) => Kept(u_primary) = <<>>
    /\ (u_pc = "returned" /\ u_sex # NONE /\ Kept(u_primary) = <<>>) =>
          Len(u_filters) = 2
    /\ FallbackReturned =>
          LET kept == Kept(u_year)
              in1  == \E i \in 1..Len(kept) : kept[i]["Dim1"] = u_sex
              in2  == \E i \in 1..Len(kept) : kept[i]["Dim2"] = u_sex
          IN /\ u_df = IF in1
                       THEN SelectSeq(kept, LAMBDA r : r["Dim1"] = u_sex)
                       ELSE IF in2
                       THEN SelectSeq(kept, LAMBDA r : r["Dim2"] = u_sex)
                       ELSE <<>>
             /\ ( /\ SelectSeq(kept, HasCode) = SelectSeq(u_year, HasCode)
                  /\ ~(in1 /\ in2) )
                => u_df = SelectSeq(u_year, HasCode)

\* A fallback whose year-only answer has two rows (no row with the
\* classification), one of which holds the code, in Dim2; that row was
\* returned.
C6_Witness ==
    /\ FallbackReturned
    /\ u_primary = <<>>
    /\ Len(u_year) = 2
    /\ DOMAIN u_year[1] = {"Dim1", "Dim2"}
    /\ u_year[1]["Dim1"] = "SEX_MLE" /\ u_year[1]["Dim2"] = "SEX_FMLE"
    /\ DOMAIN u_year[2] = {"Dim1", "Dim2"}
    /\ u_year[2]["Dim1"] = "SEX_MLE" /\ u_year[2]["Dim2"] = NULL
    /\ u_df = <<u_year[1]>>

\* C7: without a category the pull makes one paginated fetch at most and
\* never the fallback fetch; when that fetch succeeds and leaves no row
\* (the answer has zero rows, or no country row), the pull returns the
\* zero-row table and raises nothing.
C7_EmptyUnconditionalPull ==
    u_sex = NONE =>
        /\ u_pc # "fallback"
        /\ Len(u_filters) <= 1
        /\ u_year = <<>>
        /\ \A i \in 1..Len(u_filters) : u_filters[i].dim1 = NONE
        /\ (Len(u_filters) = 1 /\ u_err = NONE /\ Kept(u_primary) = <<>>) =>
              /\ u_pc = "returned"
              /\ u_df = <<>>

\* An unconditional pull whose fetch answered with zero rows and which
\* returned the empty table.
C7_Witness ==
    /\ u_sex = NONE
    /\ u_pc = "returned"
    /\ Len(u_filters) = 1
    /\ u_primary = <<>>
    /\ u_df = <<>>
    /\ u_err = NONE

\* The rows the country-row step is claimed to leave: the records classified
\* COUNTRY and every record without a classification.
CountryOrUnclassified(rows) ==
    SelectSeq(rows, LAMBDA r : \/ "SpatialDimType" \notin DOMAIN r
                               \/ r["SpatialDimType"] = "COUNTRY")

\* C14: the country-row step keeps exactly the records classified COUNTRY
\* and the records that lack the classification, after the primary fetch
\* and after the fallback fetch.
C14_UnclassifiedRowsKept ==
    /\ (u_pc \in {"fallback", "returned"} /\ Len(u_filters) = 1) =>
          u_df = CountryOrUnclassified(u_primary)
    /\ FallbackReturned => u_df_year = CountryOrUnclassified(u_year)

-----------------------------------------------------------------------------
(* The join of main *)

\* No country code occurs twice in the table.
UniqueCodes(t) ==
    \A i, j \in 1..Len(t) : t[i]["iso3"] = t[j]["iso3"] => i = j

CodesOf(t) == {t[i]["iso3"] : i \in 1..Len(t)}

CodeSeq(t) == [i \in 1..Len(t) |-> t[i]["iso3"]]

\* The value the table gives under `col` for a code it holds once.
ValueOf(t, col, code) ==
    LET i == CHOOSE i \in 1..Len(t) : t[i]["iso3"] = code IN t[i][col]

\* C10: when the country codes are unique within each table the joined
\* table has exactly one row for every primary code that the required
\* table holds too, in the primary's order, with both required values; each
\* control column holds the control's value for the codes the control
\* holds and NaN for the others.  Whenever the control tables' codes are
\* unique, the two left joins leave the rows of the inner join as they are,
\* none added and none removed.
C10_JoinRowCounts ==
    j_pc = "done" =>
        /\ (UniqueCodes(j_gdp) /\ UniqueCodes(j_edu)) =>
              /\ Len(j_df) = Len(j_inner)
              /\ CodeSeq(j_df) = CodeSeq(j_inner)
        /\ ( /\ UniqueCodes(j_pa) /\ UniqueCodes(j_sba)
             /\ UniqueCodes(j_gdp) /\ UniqueCodes(j_edu) ) =>
              /\ CodeSeq(j_df) =
                    CodeSeq(SelectSeq(j_pa,
                                      LAMBDA r : r["iso3"] \in CodesOf(j_sba)))
              /\ \A i \in 1..Len(j_df) :
                    LET c == j_df[i]["iso3"] IN
                    /\ j_df[i][PA_COL]  = ValueOf(j_pa, PA_COL, c)
                    /\ j_df[i][SBA_COL] = ValueOf(j_sba, SBA_COL, c)
                    /\ j_df[i][GDP_COL] = IF c \in CodesOf(j_gdp)
                                          THEN ValueOf(j_gdp, GDP_COL, c)
                                          ELSE NAN
                    /\ j_df[i][EDU_COL] = IF c \in CodesOf(j_edu)
                                          THEN ValueOf(j_edu, EDU_COL, c)
                                          ELSE NAN

\* The round trip: ten primary codes, a control sharing seven of them and
\* holding three others; ten rows come out, three of them with NaN under the
\* control's column.
C10_Witness ==
    /\ j_pc = "done"
    /\ Len(j_pa) = 10 /\ UniqueCodes(j_pa)
    /\ Len(j_gdp) = 10 /\ UniqueCodes(j_gdp)
    /\ Cardinality(CodesOf(j_pa) \cap CodesOf(j_gdp)) = 7
    /\ Len(j_df) = 10
    /\ {j_df[i]["iso3"] : i \in {k \in 1..Len(j_df) : j_df[k][GDP_COL] = NAN}}
          = {"C01", "C04", "C07"}

-----------------------------------------------------------------------------
(* main *)

\* The run has ended, by the return of main or by an exception.
MainEnded == m_pc \in {"done", "aborted"}

\* The calls main makes before the join, in order.
AllCalls == <<"infer", "pa", "sba", "gdp", "edu">>

\* C11: when each of the two WHO indicators gives one row, for USA, with the
\* values 25 and 99, and the World Bank holds no record for the controls,
\* the run completes and writes one row, for USA, with both values and with
\* both control columns null.
C11_EndToEndScenario ==
    ( /\ MainEnded
      /\ Len(m_pa_f) = 1
      /\ m_pa_f[1]["iso3"] = "USA" /\ m_pa_f[1][PA_COL] = <<25>>
      /\ Len(m_sba) = 1
      /\ m_sba[1]["iso3"] = "USA" /\ m_sba[1][SBA_COL] = <<99>>
      /\ m_wb_rows # <<>>
      /\ \A i \in 1..Len(m_wb_rows) : m_wb_rows[i] = 0 )
    => /\ m_pc = "done"
       /\ Len(m_files) = 1
       /\ Len(m_files[1]) = 1
       /\ m_files[1][1]["iso3"] = "USA"
       /\ m_files[1][1][PA_COL] = <<25>>
       /\ m_files[1][1][SBA_COL] = <<99>>
       /\ m_files[1][1][GDP_COL] = NAN
       /\ m_files[1][1][EDU_COL] = NAN

\* C12: no country code appears in more than one row of a table main
\* writes.
C12_OneRowPerCountry ==
    \A f \in 1..Len(m_files) : UniqueCodes(m_files[f])

\* C13: main writes at most one file, and only when the category lookup,
\* the two WHO pulls and the two World Bank fetches have all returned
\* without an exception; a run in which one of them raised has aborted
\* there and no file exists.
C13_NoPartialSuccess ==
    /\ Len(m_files) <= 1
    /\ m_files # <<>> =>
          /\ m_pc = "done"
          /\ m_err = NONE
          /\ m_done = AllCalls
          /\ m_files[1] = m_df
    /\ m_err # NONE =>
          /\ m_pc = "aborted"
          /\ m_files = <<>>
          /\ m_done # AllCalls
    /\ m_pc = "aborted" => m_err # NONE
    /\ m_pc = "done" => Len(m_files) = 1

\* A run in which the lookup, both pulls and the first World Bank fetch
\* returned, the tables of both pulls have rows, the second World Bank
\* fetch raised, and nothing was written.
C13_Witness ==
    /\ m_pc = "aborted"
    /\ m_done = <<"infer", "pa", "sba", "gdp">>
    /\ m_pa_f # <<>> /\ m_sba # <<>> /\ m_gdp # <<>>
    /\ m_err = "KeyError"
    /\ m_files = <<>>

====
